---- MODULE Spec2Model ----
(***************************************************************************)
(* Model of the logspout logstash adapter (src/logstash.go).               *)
(*                                                                         *)
(* The source file holds two revisions of the adapter, one after the       *)
(* other: lines 1-183 (revision "A": GetMarathonInfo, tags from            *)
(* LOGSTASH_TAGS and MARATHON_APP_LABEL_) and lines 185-410 (revision "B": *)
(* GetMarathonData, MarathonData struct).  The variable rev selects the    *)
(* revision a forwarder is built from; a definition that exists in both    *)
(* revisions carries the suffix A or B.                                    *)
(*                                                                         *)
(* Go strings are sequences of one-character strings, so that HasPrefix,   *)
(* TrimPrefix, Split, Replace and the JSON parser work on the text itself. *)
(***************************************************************************)
EXTENDS Integers, Sequences, FiniteSets, TLC

VARIABLES rev, logstream, closed, containerTags, conn, connOpen, pc, sent,
          trace, others, conc

vars ==
    <<rev, logstream, closed, containerTags, conn, connOpen, pc, sent, trace,
      others, conc>>

\* Number of messages the router places on the inbound stream.
MaxMsgs == 2

(***************************************************************************)
(* package strings                                                         *)
(***************************************************************************)
HasPrefix(s, prefix) ==
    Len(s) >= Len(prefix) /\ SubSeq(s, 1, Len(prefix)) = prefix

TrimPrefix(s, prefix) ==
    IF HasPrefix(s, prefix) THEN SubSeq(s, Len(prefix) + 1, Len(s)) ELSE s

\* Index of the first occurrence of the character c in s, 0 when absent.
Index(s, c) ==
    IF \E i \in 1..Len(s) : s[i] = c
    THEN CHOOSE i \in 1..Len(s) : s[i] = c /\ \A j \in 1..(i - 1) : s[j] # c
    ELSE 0

\* strings.Split(s, sep) for a one-character separator: all the segments.
RECURSIVE Split(_, _)
Split(s, sep) ==
    LET i == Index(s, sep)
    IN  IF i = 0 THEN <<s>>
        ELSE <<SubSeq(s, 1, i - 1)>> \o Split(SubSeq(s, i + 1, Len(s)), sep)

\* strings.Replace(s, old, new, n) for one-character old and new; n < 0
\* replaces every occurrence.
RECURSIVE Replace(_, _, _, _)
Replace(s, old, new, n) ==
    LET i == Index(s, old)
    IN  IF n = 0 \/ i = 0 THEN s
        ELSE SubSeq(s, 1, i - 1) \o <<new>>
             \o Replace(SubSeq(s, i + 1, Len(s)), old, new,
                        IF n < 0 THEN n ELSE n - 1)

(***************************************************************************)
(* Environment prefixes recognised by the extractors.                      *)
(***************************************************************************)
PfxLogstashTags ==
    <<"L","O","G","S","T","A","S","H","_","T","A","G","S","=">>

PfxMarathonApp == <<"M","A","R","A","T","H","O","N","_","A","P","P","_">>

PfxLabel == PfxMarathonApp \o <<"L","A","B","E","L","_">>

PfxResource == PfxMarathonApp \o <<"R","E","S","O","U","R","C","E","_">>

PfxCpus == PfxResource \o <<"C","P","U","S","=">>

PfxMem == PfxResource \o <<"M","E","M","=">>

PfxDisk == PfxResource \o <<"D","I","S","K","=">>

PfxId == PfxMarathonApp \o <<"I","D","=">>

PfxVersion == PfxMarathonApp \o <<"V","E","R","S","I","O","N","=">>

PfxImage ==
    PfxMarathonApp \o <<"D","O","C","K","E","R","_","I","M","A","G","E","=">>

(***************************************************************************)
(* Go maps: a nil map reads as empty and panics on assignment.             *)
(***************************************************************************)
EmptyFn == [k \in {} |-> <<>>]

NilMap == [isNil |-> TRUE, m |-> EmptyFn]

MakeMap == [isNil |-> FALSE, m |-> EmptyFn]

FnSet(f, k, v) == [x \in (DOMAIN f) \cup {k} |-> IF x = k THEN v ELSE f[x]]

\* Mutant: an existing key keeps its value.
MapAssign_KeepExisting(gm, k, v) ==
    IF gm.isNil
    THEN [fault |-> "assignment to entry in nil map", val |-> gm]
    ELSE IF k \in DOMAIN gm.m THEN [fault |-> "none", val |-> gm]
    ELSE [fault |-> "none", val |-> [isNil |-> FALSE, m |-> FnSet(gm.m, k, v)]]

\* m[k] = v on a Go map: [fault, val].
MapAssign(gm, k, v) ==
    IF gm.isNil
    THEN [fault |-> "assignment to entry in nil map", val |-> gm]
    ELSE [fault |-> "none", val |-> [isNil |-> FALSE, m |-> FnSet(gm.m, k, v)]]

(***************************************************************************)
(* Metadata extraction.  A container is [ID, Name, Image, Hostname, Env];  *)
(* Env is the list c.Config.Env.                                           *)
(***************************************************************************)
\* Revision A, loop of GetContainerTags from entry i on.
RECURSIVE ScanTagsA(_, _, _)
ScanTagsA(env, i, tags) ==
    IF i > Len(env) THEN tags
    ELSE LET e == env[i]
         IN  IF HasPrefix(e, PfxLogstashTags)
             THEN ScanTagsA(env, i + 1,
                      tags \o Split(TrimPrefix(e, PfxLogstashTags), ","))
             ELSE IF HasPrefix(e, PfxLabel)
             THEN ScanTagsA(env, i + 1,
                      Append(tags, Replace(TrimPrefix(e, PfxLabel), "=", "_", -1)))
             ELSE ScanTagsA(env, i + 1, tags)

\* Revision B, loop of GetContainerTags: the first LOGSTASH_TAGS= entry
\* replaces the tags and ends the loop.
RECURSIVE ScanTagsB(_, _, _)
ScanTagsB(env, i, tags) ==
    IF i > Len(env) THEN tags
    ELSE LET e == env[i]
         IN  IF HasPrefix(e, PfxLogstashTags)
             THEN Split(TrimPrefix(e, PfxLogstashTags), ",")
             ELSE ScanTagsB(env, i + 1, tags)

\* Mutant: no lookup in the cache, the environment list is always scanned.
GetContainerTagsA_NoLookup(c, cache) ==
    LET tags == ScanTagsA(c.Env, 1, <<>>)
    IN  [tags |-> tags, cache |-> FnSet(cache, c.ID, tags), scanned |-> TRUE]

\* Mutant: a lookup that ignores the container ID and returns an entry of
\* the cache whenever there is one.
GetContainerTagsA_AnyEntry(c, cache) ==
    IF cache # EmptyFn
    THEN [tags |-> cache[CHOOSE id \in DOMAIN cache : TRUE],
          cache |-> FnSet(cache, c.ID, cache[CHOOSE id \in DOMAIN cache : TRUE]),
          scanned |-> FALSE]
    ELSE LET tags == ScanTagsA(c.Env, 1, <<>>)
         IN  [tags |-> tags, cache |-> FnSet(cache, c.ID, tags), scanned |-> TRUE]

\* GetContainerTags: [tags, cache, scanned]; scanned tells whether the
\* environment list was read.
GetContainerTagsA(c, cache) ==
    IF c.ID \in DOMAIN cache
    THEN [tags |-> cache[c.ID], cache |-> cache, scanned |-> FALSE]
    ELSE LET tags == ScanTagsA(c.Env, 1, <<>>)
         IN  [tags |-> tags, cache |-> FnSet(cache, c.ID, tags), scanned |-> TRUE]

\* Mutant: revision B without the lookup; every call scans and stores.
GetContainerTagsB_NoLookup(c, cache) ==
    LET tags == ScanTagsB(c.Env, 1, <<>>)
    IN  [tags |-> tags, cache |-> FnSet(cache, c.ID, tags), scanned |-> TRUE]

GetContainerTagsB(c, cache) ==
    IF c.ID \in DOMAIN cache
    THEN [tags |-> cache[c.ID], cache |-> cache, scanned |-> FALSE]
    ELSE LET tags == ScanTagsB(c.Env, 1, <<>>)
         IN  [tags |-> tags, cache |-> FnSet(cache, c.ID, tags), scanned |-> TRUE]

\* Revision A, loop of GetMarathonInfo: [fault, val], val the label map.
RECURSIVE ScanMarathonInfo(_, _, _)
ScanMarathonInfo(env, i, info) ==
    IF i > Len(env) THEN [fault |-> "none", val |-> info]
    ELSE LET e == env[i]
         IN  IF HasPrefix(e, PfxLabel)
             THEN LET kv == Split(TrimPrefix(e, PfxLabel), "=")
                  IN  IF Len(kv) < 2
                      THEN [fault |-> "index out of range", val |-> info]
                      ELSE LET r == MapAssign(info, kv[1], kv[2])
                           IN  IF r.fault # "none" THEN r
                               ELSE ScanMarathonInfo(env, i + 1, r.val)
             ELSE ScanMarathonInfo(env, i + 1, info)

GetMarathonInfo(c) == ScanMarathonInfo(c.Env, 1, MakeMap)

\* MarathonData{}: the zero value, both maps nil.
ZeroMarathonData ==
    [Version |-> <<>>, Resource |-> NilMap, ID |-> <<>>, Label |-> NilMap,
     Image |-> <<>>]

KeyCpus == <<"c","p","u","s">>

KeyMem == <<"m","e","m">>

KeyDisk == <<"d","i","s","k">>

\* Revision B, loop of GetMarathonData: [fault, val], val a MarathonData.
RECURSIVE ScanMarathonData(_, _, _)
ScanMarathonData(env, i, m) ==
    IF i > Len(env) THEN [fault |-> "none", val |-> m]
    ELSE LET e == env[i]
             SetResource(k, prefix) ==
                 LET r == MapAssign(m.Resource, k, TrimPrefix(e, prefix))
                 IN  IF r.fault # "none" THEN [fault |-> r.fault, val |-> m]
                     ELSE ScanMarathonData(env, i + 1,
                              [m EXCEPT !.Resource = r.val])
         IN  IF HasPrefix(e, PfxLabel)
             THEN LET kv == Split(TrimPrefix(e, PfxLabel), "=")
                  IN  IF Len(kv) < 2
                      THEN [fault |-> "index out of range", val |-> m]
                      ELSE LET r == MapAssign(m.Label, kv[1], kv[2])
                           IN  IF r.fault # "none"
                               THEN [fault |-> r.fault, val |-> m]
                               ELSE ScanMarathonData(env, i + 1,
                                        [m EXCEPT !.Label = r.val])
             ELSE IF HasPrefix(e, PfxCpus) THEN SetResource(KeyCpus, PfxCpus)
             ELSE IF HasPrefix(e, PfxMem) THEN SetResource(KeyMem, PfxMem)
             ELSE IF HasPrefix(e, PfxDisk) THEN SetResource(KeyDisk, PfxDisk)
             ELSE IF HasPrefix(e, PfxId)
             THEN ScanMarathonData(env, i + 1,
                      [m EXCEPT !.ID = TrimPrefix(e, PfxId)])
             ELSE IF HasPrefix(e, PfxVersion)
             THEN ScanMarathonData(env, i + 1,
                      [m EXCEPT !.Version = TrimPrefix(e, PfxVersion)])
             ELSE IF HasPrefix(e, PfxImage)
             THEN ScanMarathonData(env, i + 1,
                      [m EXCEPT !.Image = TrimPrefix(e, PfxImage)])
             ELSE ScanMarathonData(env, i + 1, m)

GetMarathonData(c) == ScanMarathonData(c.Env, 1, ZeroMarathonData)

(***************************************************************************)
(* package encoding/json.  A JSON value is [t, n, s, a, o, k]: its kind t, *)
(* and the number, the string, the array elements, or the object members   *)
(* with the order k in which their keys stand in the text.                 *)
(***************************************************************************)
JNull ==
    [t |-> "null", n |-> 0, s |-> <<>>, a |-> <<>>, o |-> EmptyFn, k |-> <<>>]

JNum(n) ==
    [t |-> "num", n |-> n, s |-> <<>>, a |-> <<>>, o |-> EmptyFn, k |-> <<>>]

JStr(s) ==
    [t |-> "str", n |-> 0, s |-> s, a |-> <<>>, o |-> EmptyFn, k |-> <<>>]

JArr(a) ==
    [t |-> "arr", n |-> 0, s |-> <<>>, a |-> a, o |-> EmptyFn, k |-> <<>>]

\* The printable ASCII characters (but the grave accent) in the order of
\* their bytes.
Alphabet ==
    <<" ","!","\"","#","$","%","&","'","(",")","*","+",
      ",","-",".","/","0","1","2","3","4","5","6","7",
      "8","9",":",";","<","=",">","?","@","A","B","C",
      "D","E","F","G","H","I","J","K","L","M","N","O",
      "P","Q","R","S","T","U","V","W","X","Y","Z","[",
      "\\","]","^","_","a","b","c","d","e","f","g",
      "h","i","j","k","l","m","n","o","p","q","r","s",
      "t","u","v","w","x","y","z","{","|","}","~">>

Rank(c) == CHOOSE i \in 1..Len(Alphabet) : Alphabet[i] = c

\* a < b as byte strings.
RECURSIVE Less(_, _)
Less(a, b) ==
    IF b = <<>> THEN FALSE
    ELSE IF a = <<>> THEN TRUE
    ELSE IF Head(a) = Head(b) THEN Less(Tail(a), Tail(b))
    ELSE Rank(Head(a)) < Rank(Head(b))

\* The keys of a Go map in the order encoding/json writes them: sorted.
RECURSIVE SortKeys(_)
SortKeys(S) ==
    IF S = {} THEN <<>>
    ELSE LET least == CHOOSE x \in S : \A y \in S \ {x} : Less(x, y)
         IN  <<least>> \o SortKeys(S \ {least})

\* An object with its keys in the order ks.
JObjIn(o, ks) ==
    [t |-> "obj", n |-> 0, s |-> <<>>, a |-> <<>>, o |-> o, k |-> ks]

\* The encoding of a Go map: keys sorted.
JObj(o) == JObjIn(o, SortKeys(DOMAIN o))

Digits == {"0", "1", "2", "3", "4", "5", "6", "7", "8", "9"}

DigitVal(c) == CHOOSE d \in 0..9 : ToString(d) = c

ParseFail == [ok |-> FALSE, v |-> JNull, rest |-> <<>>]

\* Characters that may not stand unescaped inside a string literal.
ControlChars == {"\n", "\r", "\t"}

\* The two-character escapes: the character after the backslash and the one
\* it stands for.
SimpleEscapes ==
    {<<"\"", "\"">>, <<"\\", "\\">>, <<"/", "/">>, <<"n", "\n">>,
     <<"r", "\r">>, <<"t", "\t">>}

\* The \u escapes encoding/json writes for <, > and &.
UnicodeEscapes ==
    {<<<<"0","0","3","c">>, "<">>, <<<<"0","0","3","e">>, ">">>,
     <<<<"0","0","2","6">>, "&">>}

StringFail == [ok |-> FALSE, str |-> <<>>, rest |-> <<>>]

\* The rest of a string literal from position i of s; acc is the string
\* read so far.
RECURSIVE ScanString(_, _, _)
ScanString(s, i, acc) ==
    IF i > Len(s) \/ s[i] \in ControlChars THEN StringFail
    ELSE IF s[i] = "\""
    THEN [ok |-> TRUE, str |-> acc, rest |-> SubSeq(s, i + 1, Len(s))]
    ELSE IF s[i] # "\\" THEN ScanString(s, i + 1, Append(acc, s[i]))
    ELSE IF i + 1 > Len(s) THEN StringFail
    ELSE IF \E p \in SimpleEscapes : p[1] = s[i + 1]
    THEN ScanString(s, i + 2,
             Append(acc, (CHOOSE p \in SimpleEscapes : p[1] = s[i + 1])[2]))
    ELSE IF /\ s[i + 1] = "u"
            /\ i + 5 <= Len(s)
            /\ \E p \in UnicodeEscapes : p[1] = SubSeq(s, i + 2, i + 5)
    THEN ScanString(s, i + 6,
             Append(acc, (CHOOSE p \in UnicodeEscapes :
                              p[1] = SubSeq(s, i + 2, i + 5))[2]))
    ELSE StringFail

\* A string literal at the start of s: [ok, str, rest].
ParseString(s) ==
    IF s # <<>> /\ s[1] = "\"" THEN ScanString(s, 2, <<>>) ELSE StringFail

\* A run of digits at the start of s, as [n, rest].
RECURSIVE ParseDigits(_, _)
ParseDigits(s, n) ==
    IF s # <<>> /\ Head(s) \in Digits
    THEN ParseDigits(Tail(s), 10 * n + DigitVal(Head(s)))
    ELSE [n |-> n, rest |-> s]

NumberOf(d) == [ok |-> TRUE, v |-> JNum(d.n), rest |-> d.rest]

StringValueOf(r) ==
    IF r.ok THEN [ok |-> TRUE, v |-> JStr(r.str), rest |-> r.rest] ELSE ParseFail

\* Recursive-descent parser for JSON text without white space:
\* null, unsigned integers, strings, arrays and objects.
RECURSIVE ParseValue(_), ParseElems(_, _), AfterElem(_, _)
RECURSIVE ParseMembers(_, _), AfterKey(_, _), AfterMember(_, _, _)
ParseValue(s) ==
    IF s = <<>> THEN ParseFail
    ELSE IF HasPrefix(s, <<"n","u","l","l">>)
    THEN [ok |-> TRUE, v |-> JNull, rest |-> SubSeq(s, 5, Len(s))]
    ELSE IF Head(s) \in Digits
    THEN IF Head(s) = "0"
         THEN [ok |-> TRUE, v |-> JNum(0), rest |-> Tail(s)]
         ELSE NumberOf(ParseDigits(s, 0))
    ELSE IF Head(s) = "\"" THEN StringValueOf(ParseString(s))
    ELSE IF Head(s) = "["
    THEN IF Len(s) >= 2 /\ s[2] = "]"
         THEN [ok |-> TRUE, v |-> JArr(<<>>), rest |-> SubSeq(s, 3, Len(s))]
         ELSE ParseElems(Tail(s), <<>>)
    ELSE IF Head(s) = "{"
    THEN IF Len(s) >= 2 /\ s[2] = "}"
         THEN [ok |-> TRUE, v |-> JObjIn(EmptyFn, <<>>),
               rest |-> SubSeq(s, 3, Len(s))]
         ELSE ParseMembers(Tail(s), JObjIn(EmptyFn, <<>>))
    ELSE ParseFail

\* The elements of an array from s on; acc holds the elements read so far.
ParseElems(s, acc) == AfterElem(ParseValue(s), acc)

AfterElem(r, acc) ==
    IF ~r.ok \/ r.rest = <<>> THEN ParseFail
    ELSE IF Head(r.rest) = ","
    THEN ParseElems(Tail(r.rest), Append(acc, r.v))
    ELSE IF Head(r.rest) = "]"
    THEN [ok |-> TRUE, v |-> JArr(Append(acc, r.v)), rest |-> Tail(r.rest)]
    ELSE ParseFail

\* acc with the member key: v added; a later member with the same key
\* replaces the earlier one.
WithMember(acc, key, v) ==
    JObjIn(FnSet(acc.o, key, v),
           IF key \in DOMAIN acc.o THEN acc.k ELSE Append(acc.k, key))

\* The members of an object from s on; acc is the object read so far.
ParseMembers(s, acc) == AfterKey(ParseString(s), acc)

AfterKey(k, acc) ==
    IF ~k.ok \/ k.rest = <<>> \/ Head(k.rest) # ":" THEN ParseFail
    ELSE AfterMember(k.str, ParseValue(Tail(k.rest)), acc)

AfterMember(key, r, acc) ==
    IF ~r.ok \/ r.rest = <<>> THEN ParseFail
    ELSE IF Head(r.rest) = ","
    THEN ParseMembers(Tail(r.rest), WithMember(acc, key, r.v))
    ELSE IF Head(r.rest) = "}"
    THEN [ok |-> TRUE, v |-> WithMember(acc, key, r.v), rest |-> Tail(r.rest)]
    ELSE ParseFail

\* The value the whole text encodes: [ok, v].
Whole(r) == [ok |-> r.ok /\ r.rest = <<>>, v |-> r.v]

Decode(text) == Whole(ParseValue(text))

\* A value held in an interface{}: its dynamic Go type and the value.
Iface(type, val) == [go |-> type, val |-> val]

\* json.Unmarshal(text, &data) with data a nil map[string]interface{}:
\* a syntax error or a value that is neither null nor an object is an error,
\* null leaves data nil, an object fills a new map.
Unmarshal(text) ==
    LET d == Decode(text)
    IN  IF ~d.ok THEN [err |-> "syntax", data |-> NilMap]
        ELSE IF d.v.t = "null" THEN [err |-> "none", data |-> NilMap]
        ELSE IF d.v.t = "obj"
        THEN [err |-> "none",
              data |-> [isNil |-> FALSE,
                        m |-> [k \in DOMAIN d.v.o |-> Iface("json", d.v.o[k])]]]
        ELSE [err |-> "type", data |-> NilMap]

(***************************************************************************)
(* Keys of the transmitted JSON objects (struct tags and field names).     *)
(***************************************************************************)
KeyMessage == <<"m","e","s","s","a","g","e">>

KeyStream == <<"s","t","r","e","a","m">>

KeyDocker == <<"d","o","c","k","e","r">>

KeyMarathon == <<"m","a","r","a","t","h","o","n">>

KeyMesos == <<"m","e","s","o","s">>

KeyTags == <<"t","a","g","s">>

KeyName == <<"n","a","m","e">>

KeyId == <<"i","d">>

KeyImage == <<"i","m","a","g","e">>

KeyHostname == <<"h","o","s","t","n","a","m","e">>

FieldVersion == <<"V","e","r","s","i","o","n">>

FieldResource == <<"R","e","s","o","u","r","c","e">>

FieldID == <<"I","D">>

FieldLabel == <<"L","a","b","e","l">>

FieldImage == <<"I","m","a","g","e">>

FieldSandbox == <<"S","a","n","d","b","o","x">>

FieldContainerName ==
    <<"C","o","n","t","a","i","n","e","r","N","a","m","e">>

FieldTask == <<"T","a","s","k">>

\* The encoding of a struct: the given keys (a sequence) with the given
\* values (a sequence), in the order of the fields.
Object(keys, vals) ==
    JObjIn([k \in {keys[i] : i \in 1..Len(keys)} |->
               vals[CHOOSE i \in 1..Len(keys) : keys[i] = k]], keys)

(***************************************************************************)
(* json.Marshal, by Go type, to the JSON value that is transmitted.        *)
(***************************************************************************)
MarshalDockerInfo(d) ==
    Object(<<KeyName, KeyId, KeyImage, KeyHostname>>,
           <<JStr(d.Name), JStr(d.ID), JStr(d.Image), JStr(d.Hostname)>>)

MarshalStrings(tags) == JArr([i \in 1..Len(tags) |-> JStr(tags[i])])

\* map[string]string: a nil map is encoded as null.
MarshalStringMap(gm) ==
    IF gm.isNil THEN JNull ELSE JObj([k \in DOMAIN gm.m |-> JStr(gm.m[k])])

\* MarathonData has no struct tags: every field under its Go name.
MarshalMarathonData(md) ==
    Object(<<FieldVersion, FieldResource, FieldID, FieldLabel, FieldImage>>,
           <<JStr(md.Version), MarshalStringMap(md.Resource), JStr(md.ID),
             MarshalStringMap(md.Label), JStr(md.Image)>>)

MarshalMesosData(md) ==
    Object(<<FieldSandbox, FieldContainerName, FieldTask>>,
           <<JStr(md.Sandbox), JStr(md.ContainerName), JStr(md.Task)>>)

\* Revision A: Marathon is a *map[string]string with omitempty, left out
\* when the pointer is nil.
MarshalLogstashMessageA(msg) ==
    LET keys == <<KeyMessage, KeyStream, KeyDocker, KeyTags>>
        vals == <<JStr(msg.Message), JStr(msg.Stream),
                  MarshalDockerInfo(msg.Docker), MarshalStrings(msg.Tags)>>
    IN  IF msg.Marathon.nilPtr THEN Object(keys, vals)
        ELSE Object(Append(keys, KeyMarathon),
                    Append(vals, MarshalStringMap(msg.Marathon.elem)))

\* Revision B: Marathon and Mesos are struct values; omitempty never leaves
\* out a struct.
MarshalLogstashMessageB(msg) ==
    Object(<<KeyMessage, KeyStream, KeyDocker, KeyMarathon, KeyMesos, KeyTags>>,
           <<JStr(msg.Message), JStr(msg.Stream), MarshalDockerInfo(msg.Docker),
             MarshalMarathonData(msg.Marathon), MarshalMesosData(msg.Mesos),
             MarshalStrings(msg.Tags)>>)

\* A value decoded by Unmarshal and encoded again: its objects are Go maps,
\* written with their keys sorted.
RECURSIVE MarshalDecoded(_)
MarshalDecoded(v) ==
    IF v.t = "arr" THEN JArr([i \in 1..Len(v.a) |-> MarshalDecoded(v.a[i])])
    ELSE IF v.t = "obj"
    THEN JObj([key \in DOMAIN v.o |-> MarshalDecoded(v.o[key])])
    ELSE v

\* A value held in an interface{}, encoded by its dynamic type.
MarshalIface(x) ==
    IF x.go = "json" THEN MarshalDecoded(x.val)
    ELSE IF x.go = "DockerInfo" THEN MarshalDockerInfo(x.val)
    ELSE IF x.go = "[]string" THEN MarshalStrings(x.val)
    ELSE IF x.go = "string" THEN JStr(x.val)
    ELSE IF x.go = "map[string]string" THEN MarshalStringMap(x.val)
    ELSE MarshalMarathonData(x.val)

\* map[string]interface{}
MarshalData(data) ==
    IF data.isNil THEN JNull
    ELSE JObj([k \in DOMAIN data.m |-> MarshalIface(data.m[k])])

(***************************************************************************)
(* One iteration of the loop of Stream, up to the write.  A message is     *)
(* [Container, Data, Source].  The result is                               *)
(*   cache, tags, scanned : the effect of GetContainerTags                 *)
(*   fault, at            : the run-time panic raised, "none" if none      *)
(*   shape                : "raw" (LogstashMessage), "merged" (the parsed  *)
(*                          payload with the four keys set) or "none"      *)
(*   msg, data            : the composed record of that shape              *)
(*   buf                  : the bytes handed to conn.Write                 *)
(***************************************************************************)
DockerInfoOf(m) ==
    [Name |-> m.Container.Name, ID |-> m.Container.ID,
     Image |-> m.Container.Image, Hostname |-> m.Container.Hostname]

ZeroMesosData == [Sandbox |-> <<>>, ContainerName |-> <<>>, Task |-> <<>>]

\* The text of a string character inside a JSON string literal.
EscapeChar(c) ==
    IF c = "\"" THEN <<"\\", "\"">>
    ELSE IF c = "\\" THEN <<"\\", "\\">>
    ELSE IF c = "\n" THEN <<"\\", "n">>
    ELSE IF c = "\r" THEN <<"\\", "r">>
    ELSE IF c = "\t" THEN <<"\\", "t">>
    ELSE IF c = "<" THEN <<"\\", "u", "0", "0", "3", "c">>
    ELSE IF c = ">" THEN <<"\\", "u", "0", "0", "3", "e">>
    ELSE IF c = "&" THEN <<"\\", "u", "0", "0", "2", "6">>
    ELSE <<c>>

RECURSIVE EscapeString(_)
EscapeString(s) ==
    IF s = <<>> THEN <<>> ELSE EscapeChar(Head(s)) \o EscapeString(Tail(s))

EncodeString(s) == <<"\"">> \o EscapeString(s) \o <<"\"">>

\* The decimal digits of a natural number.
RECURSIVE EncodeNumber(_)
EncodeNumber(n) ==
    IF n < 10 THEN <<ToString(n)>>
    ELSE Append(EncodeNumber(n \div 10), ToString(n % 10))

\* The bytes json.Marshal returns for a JSON value: compact, no white space.
RECURSIVE Encode(_), EncodeElems(_, _), EncodeMembers(_, _)
Encode(v) ==
    IF v.t = "null" THEN <<"n","u","l","l">>
    ELSE IF v.t = "num" THEN EncodeNumber(v.n)
    ELSE IF v.t = "str" THEN EncodeString(v.s)
    ELSE IF v.t = "arr" THEN <<"[">> \o EncodeElems(v.a, 1) \o <<"]">>
    ELSE <<"{">> \o EncodeMembers(v, 1) \o <<"}">>

EncodeElems(a, i) ==
    IF i > Len(a) THEN <<>>
    ELSE (IF i > 1 THEN <<",">> ELSE <<>>) \o Encode(a[i])
             \o EncodeElems(a, i + 1)

EncodeMembers(v, i) ==
    IF i > Len(v.k) THEN <<>>
    ELSE (IF i > 1 THEN <<",">> ELSE <<>>) \o EncodeString(v.k[i]) \o <<":">>
             \o Encode(v.o[v.k[i]]) \o EncodeMembers(v, i + 1)

\* Mutant: the record is written without the newline.
Frame_NoNewline(js) == js

\* js = append(js, byte('\n'))
Frame(js) == Append(js, "\n")

Faulted(g, fault, at) ==
    [cache |-> g.cache, tags |-> g.tags, scanned |-> g.scanned,
     fault |-> fault, at |-> at, shape |-> "none", msg |-> <<>>,
     data |-> NilMap, buf |-> <<>>]

\* data["docker"], data["tags"], data["stream"], data["marathon"] = ...
MergeFields(data, dockerInfo, tags, source, marathon) ==
    LET a1 == MapAssign(data, KeyDocker, Iface("DockerInfo", dockerInfo))
        a2 == MapAssign(a1.val, KeyTags, Iface("[]string", tags))
        a3 == MapAssign(a2.val, KeyStream, Iface("string", source))
        a4 == MapAssign(a3.val, KeyMarathon, marathon)
    IN  IF a1.fault # "none" THEN a1
        ELSE IF a2.fault # "none" THEN a2
        ELSE IF a3.fault # "none" THEN a3
        ELSE a4

\* Revision A.  The literal at line 130 stores the map returned by
\* GetMarathonInfo in the field Marathon of type *map[string]string; it is
\* modelled as a pointer to that map, which is never nil.
StreamBodyA(m, cache) ==
    LET dockerInfo == DockerInfoOf(m)
        g == GetContainerTagsA(m.Container, cache)
        mi == GetMarathonInfo(m.Container)
        u == Unmarshal(m.Data)
        msg == [Message |-> m.Data, Docker |-> dockerInfo,
                Marathon |-> [nilPtr |-> FALSE, elem |-> mi.val],
                Stream |-> m.Source, Tags |-> g.tags]
        mg == MergeFields(u.data, dockerInfo, g.tags, m.Source,
                          Iface("map[string]string", mi.val))
    IN  IF mi.fault # "none" THEN Faulted(g, mi.fault, "GetMarathonInfo")
        ELSE IF u.err # "none"
        THEN [cache |-> g.cache, tags |-> g.tags, scanned |-> g.scanned,
              fault |-> "none", at |-> "", shape |-> "raw", msg |-> msg,
              data |-> NilMap, buf |-> Frame(Encode(MarshalLogstashMessageA(msg)))]
        ELSE IF mg.fault # "none" THEN Faulted(g, mg.fault, "Stream")
        ELSE [cache |-> g.cache, tags |-> g.tags, scanned |-> g.scanned,
              fault |-> "none", at |-> "", shape |-> "merged", msg |-> <<>>,
              data |-> mg.val, buf |-> Frame(Encode(MarshalData(mg.val)))]

StreamBodyB(m, cache) ==
    LET dockerInfo == DockerInfoOf(m)
        g == GetContainerTagsB(m.Container, cache)
        md == GetMarathonData(m.Container)
        u == Unmarshal(m.Data)
        msg == [Message |-> m.Data, Docker |-> dockerInfo,
                Marathon |-> md.val, Mesos |-> ZeroMesosData,
                Stream |-> m.Source, Tags |-> g.tags]
        mg == MergeFields(u.data, dockerInfo, g.tags, m.Source,
                          Iface("MarathonData", md.val))
    IN  IF md.fault # "none" THEN Faulted(g, md.fault, "GetMarathonData")
        ELSE IF u.err # "none"
        THEN [cache |-> g.cache, tags |-> g.tags, scanned |-> g.scanned,
              fault |-> "none", at |-> "", shape |-> "raw", msg |-> msg,
              data |-> NilMap, buf |-> Frame(Encode(MarshalLogstashMessageB(msg)))]
        ELSE IF mg.fault # "none" THEN Faulted(g, mg.fault, "Stream")
        ELSE [cache |-> g.cache, tags |-> g.tags, scanned |-> g.scanned,
              fault |-> "none", at |-> "", shape |-> "merged", msg |-> <<>>,
              data |-> mg.val, buf |-> Frame(Encode(MarshalData(mg.val)))]

StreamBody(r, m, cache) ==
    IF r = "A" THEN StreamBodyA(m, cache) ELSE StreamBodyB(m, cache)

(***************************************************************************)
(* Inputs: environment entries, containers, payloads and messages the      *)
(* router may deliver.                                                     *)
(***************************************************************************)
EnvTagsProdWeb == PfxLogstashTags \o <<"p","r","o","d",",","w","e","b">>

EnvTagsA == PfxLogstashTags \o <<"a">>

EnvTagsBC == PfxLogstashTags \o <<"b",",","c">>

EnvIdSvc == PfxId \o <<"/","s","v","c">>

EnvLabelKVW == PfxLabel \o <<"K","=","v","=","w">>

EnvLabelNoEq == PfxLabel \o <<"F","O","O">>

EnvCpus == PfxCpus \o <<"1">>

EnvMem == PfxMem \o <<"2">>

EnvDisk == PfxDisk \o <<"3">>

EnvVersion == PfxVersion \o <<"9">>

EnvPath == <<"P","A","T","H","=","/">>

EnvLists ==
    { <<>>,
      <<EnvTagsProdWeb, EnvIdSvc>>,
      <<EnvTagsA, EnvPath, EnvTagsBC>>,
      <<EnvLabelKVW, EnvTagsA>>,
      <<EnvLabelNoEq, EnvTagsA>>,
      <<EnvVersion, EnvCpus, EnvMem, EnvDisk>> }

Container(id, env) ==
    [ID |-> id, Name |-> <<"/", "n">> \o id, Image |-> <<"i", "m", "g">>,
     Hostname |-> <<"h">> \o id, Env |-> env]

IdC1 == <<"c", "1">>

IdC2 == <<"c", "2">>

Containers == {Container(IdC1, env) : env \in EnvLists}

TextHello == <<"h","e","l","l","o">>

TextNull == <<"n","u","l","l">>

TextArray == <<"[","1",",","n","u","l","l","]">>

TextObjectA == <<"{","\"","a","\"",":","1","}">>

TextObjectTags ==
    <<"{","\"","t","a","g","s","\"",":","\"","p","\"",",","\"","b","\"",":","[","]","}">>

TextTwoLines == <<"a","\n","\"","b","\"">>

Payloads ==
    {TextHello, TextNull, TextArray, TextObjectA, TextObjectTags,
     TextTwoLines}

Stdout == <<"s","t","d","o","u","t">>

Stderr == <<"s","t","d","e","r","r">>

Message(c, data, source) == [Container |-> c, Data |-> data, Source |-> source]

Messages ==
    {Message(c, TextHello, Stdout) : c \in Containers}
        \cup {Message(Container(IdC1, <<>>), p, Stdout) : p \in Payloads}
        \cup {Message(Container(IdC2, <<EnvTagsProdWeb, EnvIdSvc>>),
                       TextObjectTags, Stderr)}

(***************************************************************************)
(* The forwarder.                                                          *)
(*   rev           the revision of the adapter                             *)
(*   logstream     the inbound channel: messages sent and not yet received,*)
(*                 each with its arrival number                            *)
(*   closed        the router has closed the channel                       *)
(*   containerTags the cache a.containerTags                               *)
(*   conn          the buffers written to a.conn, in order                 *)
(*   connOpen      a.conn is open (dialled and not closed)                 *)
(*   pc            "Running", "Returned" (the loop ended on the closed     *)
(*                 channel), "Fatal" (log.Fatal after a failed write),     *)
(*                 "Panic" (run-time panic), "Exited" (the process was     *)
(*                 ended by another forwarder)                             *)
(*   sent          number of messages sent so far                          *)
(*   trace         history: one entry per message received by Stream       *)
(*   others        the other forwarder of the process, if there is one     *)
(*   conc          concurrent callers of GetContainerTags, if there are any*)
(***************************************************************************)
\* No second forwarder in the process.
NoForwarder ==
    [pc |-> "None", logstream |-> <<>>, containerTags |-> EmptyFn,
     conn |-> <<>>, connOpen |-> FALSE, sent |-> 0]

\* No caller of GetContainerTags besides Stream.
NoCallers == <<>>

\* log.Fatal and a run-time panic end the process, and with it every other
\* forwarder that is still running.
ExitProcess(f) == IF f.pc = "Running" THEN [f EXCEPT !.pc = "Exited"] ELSE f

Init ==
    /\ rev \in {"A", "B"}
    /\ logstream = <<>>
    /\ closed = FALSE
    /\ containerTags = EmptyFn
    /\ conn = <<>>
    /\ pc = "Running"
    /\ sent = 0
    /\ trace = <<>>
    /\ connOpen = TRUE
    /\ others = NoForwarder
    /\ conc = NoCallers

\* The router sends a message on the channel.
Send(m) ==
    /\ pc = "Running"
    /\ ~closed
    /\ sent < MaxMsgs
    /\ sent' = sent + 1
    /\ logstream' = Append(logstream, [seq |-> sent + 1, msg |-> m])
    /\ UNCHANGED <<rev, closed, containerTags, conn, connOpen, pc, trace,
                   others, conc>>

\* The router closes the channel.
Close ==
    /\ pc = "Running"
    /\ ~closed
    /\ closed' = TRUE
    /\ UNCHANGED <<rev, logstream, containerTags, conn, connOpen, pc, sent,
                   trace, others, conc>>

\* Mutant: the newest message is received first.
Receive_Last(ch) == ch[Len(ch)]

\* for m := range logstream: the next message on the channel.
Receive(ch) == Head(ch)

\* Mutant: a failed write is logged and the loop goes on.
NextPc_IgnoreWriteError(composed, merr, werr) ==
    IF ~composed THEN "Panic" ELSE "Running"

\* Mutant: a failed Marshal ends the process like a failed write.
NextPc_FatalOnMarshalError(composed, merr, werr) ==
    IF ~composed THEN "Panic"
    ELSE IF merr \/ werr THEN "Fatal" ELSE "Running"

\* Where the iteration leaves the forwarder: continue after a failed
\* Marshal, log.Fatal after a failed Write.
NextPc(composed, merr, werr) ==
    IF ~composed THEN "Panic"
    ELSE IF merr THEN "Running"
    ELSE IF werr THEN "Fatal" ELSE "Running"

\* One iteration of the loop of Stream.  marshalOk and writeOk are the
\* results of json.Marshal and of conn.Write: a failed Marshal is logged and
\* the loop continues with the next message, a failed Write ends the process
\* through log.Fatal, and so does a run-time panic.
StreamStep(marshalOk, writeOk) ==
    /\ pc = "Running"
    /\ logstream # <<>>
    /\ \E item \in {Receive(logstream)} :
       \E o \in {StreamBody(rev, item.msg, containerTags)} :
       LET composed == o.fault = "none"
           merr == composed /\ ~marshalOk
           werr == composed /\ marshalOk /\ ~writeOk
           wrote == composed /\ marshalOk /\ writeOk
           next == NextPc(composed, merr, werr)
       IN  /\ ~composed => marshalOk
           /\ ~(composed /\ marshalOk) => writeOk
           /\ logstream' = SelectSeq(logstream, LAMBDA x : x.seq # item.seq)
           /\ containerTags' = o.cache
           /\ conn' = IF wrote THEN Append(conn, o.buf) ELSE conn
           /\ pc' = next
           /\ others' = IF next = "Running" THEN others ELSE ExitProcess(others)
           /\ trace' = Append(trace,
                  [seq |-> item.seq, m |-> item.msg, tags |-> o.tags,
                   scanned |-> o.scanned, fault |-> o.fault, at |-> o.at,
                   shape |-> o.shape, msg |-> o.msg, data |-> o.data,
                   buf |-> IF merr THEN <<>> ELSE o.buf,
                   merr |-> merr, werr |-> werr, wrote |-> wrote])
    /\ UNCHANGED <<rev, closed, connOpen, sent, conc>>

\* The channel is closed and drained: the loop ends and Stream returns.
StreamReturn ==
    /\ pc = "Running"
    /\ closed
    /\ logstream = <<>>
    /\ pc' = "Returned"
    /\ UNCHANGED <<rev, logstream, closed, containerTags, conn, connOpen, sent,
                   trace, others, conc>>

Next ==
    \/ \E m \in Messages : Send(m)
    \/ Close
    \/ \E marshalOk, writeOk \in BOOLEAN : StreamStep(marshalOk, writeOk)
    \/ StreamReturn

Spec == Init /\ [][Next]_vars

(***************************************************************************)
(* Two goroutines calling GetContainerTags on the cache of one adapter.    *)
(* LogstashAdapter has no lock, so the accesses to the map containerTags   *)
(* may overlap.  An access of a Go map is not atomic: a write marks the    *)
(* map as being written while it runs, and an access that sees the mark of *)
(* another goroutine makes the run time end the process ("concurrent map   *)
(* writes", "concurrent map read and map write").  The check is best       *)
(* effort; an overlap it misses is a data race, after which the write      *)
(* that ends last may have dropped the entry of the other.                 *)
(* A caller is [c, pc, tags, snap]: its container, its position ("lookup", *)
(* "scan", "store", "storing", "done", "thrown"), the tags it holds and    *)
(* the map as it was when its write began.                                 *)
(***************************************************************************)
Caller(c) == [c |-> c, pc |-> "lookup", tags |-> <<>>, snap |-> EmptyFn]

\* The callers: two calls for containers of different IDs.
CallerPairs ==
    {<<Caller(Container(IdC1, e1)), Caller(Container(IdC2, e2))>> :
         e1 \in EnvLists, e2 \in EnvLists}

InitConc ==
    /\ rev \in {"A", "B"}
    /\ logstream = <<>>
    /\ closed = FALSE
    /\ containerTags = EmptyFn
    /\ conn = <<>>
    /\ pc = "Running"
    /\ sent = 0
    /\ trace = <<>>
    /\ connOpen = TRUE
    /\ others = NoForwarder
    /\ conc \in CallerPairs

\* The other caller is inside its write of the map.
WriteInProgress(k) == conc[3 - k].pc = "storing"

\* The loop of GetContainerTags over the environment list.
ScanTags(r, env) ==
    IF r = "A" THEN ScanTagsA(env, 1, <<>>) ELSE ScanTagsB(env, 1, <<>>)

\* if tags, ok := a.containerTags[c.ID]; ok { return tags }.  detected: the
\* read sees the write of the other caller and the run time ends the process.
TagsLookup(k, detected) ==
    /\ pc = "Running"
    /\ conc # NoCallers
    /\ conc[k].pc = "lookup"
    /\ detected => WriteInProgress(k)
    /\ conc' = [conc EXCEPT ![k] =
                   IF detected THEN [@ EXCEPT !.pc = "thrown"]
                   ELSE IF @.c.ID \in DOMAIN containerTags
                   THEN [@ EXCEPT !.pc = "done", !.tags = containerTags[@.c.ID]]
                   ELSE [@ EXCEPT !.pc = "scan"]]
    /\ pc' = IF detected THEN "Panic" ELSE pc
    /\ UNCHANGED <<rev, logstream, closed, containerTags, conn, connOpen, sent,
                   trace, others>>

\* for _, e := range c.Config.Env { ... }
TagsScan(k) ==
    /\ pc = "Running"
    /\ conc # NoCallers
    /\ conc[k].pc = "scan"
    /\ conc' = [conc EXCEPT ![k].pc = "store",
                            ![k].tags = ScanTags(rev, conc[k].c.Env)]
    /\ UNCHANGED <<rev, logstream, closed, containerTags, conn, connOpen, pc,
                   sent, trace, others>>

\* a.containerTags[c.ID] = tags begins.  detected: the write sees the write
\* of the other caller and the run time ends the process.
TagsStoreBegin(k, detected) ==
    /\ pc = "Running"
    /\ conc # NoCallers
    /\ conc[k].pc = "store"
    /\ detected => WriteInProgress(k)
    /\ conc' = [conc EXCEPT ![k] =
                   IF detected THEN [@ EXCEPT !.pc = "thrown"]
                   ELSE [@ EXCEPT !.pc = "storing", !.snap = containerTags]]
    /\ pc' = IF detected THEN "Panic" ELSE pc
    /\ UNCHANGED <<rev, logstream, closed, containerTags, conn, connOpen, sent,
                   trace, others>>

\* a.containerTags[c.ID] = tags ends and GetContainerTags returns.  When
\* another write overlapped this one, the run time may end the process
\* ("thrown") or the write may be based on the map as it was when it began
\* ("lost"); otherwise the entry is added ("stored").
TagsStoreEnd(k, outcome) ==
    /\ pc = "Running"
    /\ conc # NoCallers
    /\ conc[k].pc = "storing"
    /\ outcome # "stored" => (WriteInProgress(k) \/ conc[k].snap # containerTags)
    /\ conc' = [conc EXCEPT ![k].pc =
                   IF outcome = "thrown" THEN "thrown" ELSE "done"]
    /\ containerTags' =
           IF outcome = "stored"
           THEN FnSet(containerTags, conc[k].c.ID, conc[k].tags)
           ELSE IF outcome = "lost"
           THEN FnSet(conc[k].snap, conc[k].c.ID, conc[k].tags)
           ELSE containerTags
    /\ pc' = IF outcome = "thrown" THEN "Panic" ELSE pc
    /\ UNCHANGED <<rev, logstream, closed, conn, connOpen, sent, trace, others>>

NextConc ==
    \E k \in 1..2 :
        \/ \E detected \in BOOLEAN : TagsLookup(k, detected)
        \/ TagsScan(k)
        \/ \E detected \in BOOLEAN : TagsStoreBegin(k, detected)
        \/ \E outcome \in {"stored", "lost", "thrown"} : TagsStoreEnd(k, outcome)

ConcSpec == InitConc /\ [][NextConc]_vars

(***************************************************************************)
(* Two forwarders in one process.  The second one is the record others:    *)
(* [pc, logstream, containerTags, conn, connOpen, sent].  Each adapter has *)
(* its own cache and connection; log.Fatal and a run-time panic of either  *)
(* end the process, and with it the other.                                 *)
(***************************************************************************)
\* Number of messages the router places on the stream of the second forwarder.
MaxOtherMsgs == 1

NewForwarder ==
    [pc |-> "Running", logstream |-> <<>>, containerTags |-> EmptyFn,
     conn |-> <<>>, connOpen |-> TRUE, sent |-> 0]

\* The messages the router delivers to the two forwarders.
FewMessages ==
    {m \in Messages :
         m.Container.Env = <<>> /\ m.Data \in {TextHello, TextNull}}

InitTwo ==
    /\ rev \in {"A", "B"}
    /\ logstream = <<>>
    /\ closed = FALSE
    /\ containerTags = EmptyFn
    /\ conn = <<>>
    /\ pc = "Running"
    /\ sent = 0
    /\ trace = <<>>
    /\ connOpen = TRUE
    /\ others = NewForwarder
    /\ conc = NoCallers

\* The router sends a message on the channel of the second forwarder.
OtherSend(m) ==
    /\ others.pc = "Running"
    /\ others.sent < MaxOtherMsgs
    /\ others' = [others EXCEPT !.sent = @ + 1,
                                !.logstream = Append(@, m)]
    /\ UNCHANGED <<rev, logstream, closed, containerTags, conn, connOpen, pc,
                   sent, trace, conc>>

\* One iteration of the loop of Stream of the second forwarder.
OtherStep(marshalOk, writeOk) ==
    /\ others.pc = "Running"
    /\ others.logstream # <<>>
    /\ \E o \in {StreamBody(rev, Receive(others.logstream), others.containerTags)} :
       LET composed == o.fault = "none"
           merr == composed /\ ~marshalOk
           werr == composed /\ marshalOk /\ ~writeOk
           wrote == composed /\ marshalOk /\ writeOk
           next == NextPc(composed, merr, werr)
       IN  /\ ~composed => marshalOk
           /\ ~(composed /\ marshalOk) => writeOk
           /\ others' = [others EXCEPT
                             !.logstream = Tail(@),
                             !.containerTags = o.cache,
                             !.conn = IF wrote THEN Append(@, o.buf) ELSE @,
                             !.pc = next]
           /\ pc' = IF next # "Running" /\ pc = "Running" THEN "Exited" ELSE pc
    /\ UNCHANGED <<rev, logstream, closed, containerTags, conn, connOpen, sent,
                   trace, conc>>

NextTwo ==
    \/ \E m \in FewMessages : Send(m)
    \/ Close
    \/ \E marshalOk, writeOk \in BOOLEAN : StreamStep(marshalOk, writeOk)
    \/ StreamReturn
    \/ \E m \in FewMessages : OtherSend(m)
    \/ \E marshalOk, writeOk \in BOOLEAN : OtherStep(marshalOk, writeOk)

TwoSpec == InitTwo /\ [][NextTwo]_vars

(***************************************************************************)
(* Properties.                                                             *)
(***************************************************************************)
Entries == {trace[i] : i \in 1..Len(trace)}

EnvOf(e) == e.m.Container.Env

EnvEntries(env) == {env[j] : j \in 1..Len(env)}

InExtraction(e) == e.at \in {"GetMarathonInfo", "GetMarathonData"}

\* C1: every received message, whatever its payload is (not JSON, an
\* object, null, a number, a string, an array), gets exactly one composed
\* record, raw or merged, and composing it raises no fault.  (Faults of the
\* metadata extraction, which do not depend on the payload, are left aside.)
C1_OneRecordPerMessage ==
    \A e \in Entries :
        ~InExtraction(e) => e.fault = "none" /\ e.shape \in {"raw", "merged"}

LabelWithoutEq(x) == HasPrefix(x, PfxLabel) /\ Index(x, "=") = 0

\* C2: a MARATHON_APP_LABEL_ entry without '=' is ignored: extraction raises
\* no error and the message carrying that environment is still composed.
C2_LabelWithoutEqIgnored ==
    \A e \in Entries :
        /\ e.fault # "index out of range"
        /\ (\E x \in EnvEntries(EnvOf(e)) : LabelWithoutEq(x))
               => e.fault = "none" /\ e.shape # "none"

\* The comma-split segments of every LOGSTASH_TAGS= entry, in scan order.
RECURSIVE LogstashSegments(_)
LogstashSegments(env) ==
    IF env = <<>> THEN <<>>
    ELSE (IF HasPrefix(Head(env), PfxLogstashTags)
          THEN Split(TrimPrefix(Head(env), PfxLogstashTags), ",")
          ELSE <<>>) \o LogstashSegments(Tail(env))

\* a occurs in b as a subsequence.
RECURSIVE IsSubseq(_, _)
IsSubseq(a, b) ==
    IF a = <<>> THEN TRUE
    ELSE IF b = <<>> THEN FALSE
    ELSE IF Head(a) = Head(b) THEN IsSubseq(Tail(a), Tail(b))
    ELSE IsSubseq(a, Tail(b))

\* C3: for a container that is not cached yet, the tags returned contain, in
\* scan order, the segments of every LOGSTASH_TAGS= entry; with two or more
\* such entries each one contributes.
C3_EveryTagsEntryContributes ==
    \A e \in Entries :
        e.scanned => IsSubseq(LogstashSegments(EnvOf(e)), e.tags)

\* The scheduler metadata of a composed record, by facet.
MarathonOf(e) ==
    IF e.shape = "raw"
    THEN (IF rev = "A" THEN e.msg.Marathon.elem ELSE e.msg.Marathon)
    ELSE e.data.m[KeyMarathon].val

LabelMapOf(e) == IF rev = "A" THEN MarathonOf(e).m ELSE MarathonOf(e).Label.m

ResourceMapOf(e) == IF rev = "A" THEN EmptyFn ELSE MarathonOf(e).Resource.m

Lookup(f, k) == IF k \in DOMAIN f THEN f[k] ELSE <<>>

IdentityOf(e) ==
    IF rev = "A" THEN Lookup(MarathonOf(e).m, KeyId) ELSE MarathonOf(e).ID

VersionOf(e) ==
    IF rev = "A" THEN Lookup(MarathonOf(e).m, FieldVersion)
    ELSE MarathonOf(e).Version

\* K and V of the text K=V: split at the first '='.
LabelKey(kv) == SubSeq(kv, 1, Index(kv, "=") - 1)

LabelValue(kv) == SubSeq(kv, Index(kv, "=") + 1, Len(kv))

\* C4: an entry MARATHON_APP_LABEL_<K>=<V>, V possibly holding '=', gives
\* the tag <K>_<V> (only the first '=' replaced) and the label K -> V with
\* V complete.
C4_LabelTagAndMapEntry ==
    \A e \in Entries :
        \A x \in EnvEntries(EnvOf(e)) :
            (e.scanned /\ HasPrefix(x, PfxLabel) /\ ~LabelWithoutEq(x)) =>
                LET kv == TrimPrefix(x, PfxLabel)
                IN  /\ \E i \in 1..Len(e.tags) :
                           e.tags[i] = LabelKey(kv) \o <<"_">> \o LabelValue(kv)
                    /\ e.fault = "none"
                    /\ LabelKey(kv) \in DOMAIN LabelMapOf(e)
                    /\ LabelMapOf(e)[LabelKey(kv)] = LabelValue(kv)

\* The entry with prefix p sets key k of the resource map of e.
ResourceSet(e, x, p, k) ==
    HasPrefix(x, p) =>
        /\ e.fault = "none"
        /\ k \in DOMAIN ResourceMapOf(e)
        /\ ResourceMapOf(e)[k] = TrimPrefix(x, p)

\* C5: the resource map has cpus, mem and disk, and the identity and the
\* version are set, from the MARATHON_APP_ entries present; extracting them
\* raises no fault.
C5_ResourceIdentityVersion ==
    \A e \in Entries :
        \A x \in EnvEntries(EnvOf(e)) :
            /\ ResourceSet(e, x, PfxCpus, KeyCpus)
            /\ ResourceSet(e, x, PfxMem, KeyMem)
            /\ ResourceSet(e, x, PfxDisk, KeyDisk)
            /\ HasPrefix(x, PfxId) =>
                   e.fault = "none" /\ IdentityOf(e) = TrimPrefix(x, PfxId)
            /\ HasPrefix(x, PfxVersion) =>
                   e.fault = "none" /\ VersionOf(e) = TrimPrefix(x, PfxVersion)

SameContainer(i, j) ==
    /\ trace[i].m.Container.ID = trace[j].m.Container.ID
    /\ EnvOf(trace[i]) = EnvOf(trace[j])

\* C6: two calls of GetContainerTags for the same container ID and the same
\* environment list return the same tags, and the second returns the stored
\* entry without scanning the list.
C6_CacheIdempotent ==
    \A j \in 1..Len(trace) :
        \A i \in 1..(j - 1) :
            SameContainer(i, j) =>
                /\ trace[j].tags = trace[i].tags
                /\ ~trace[j].scanned
                /\ containerTags[trace[j].m.Container.ID] = trace[j].tags

C6_Witness ==
    \E j \in 1..Len(trace) :
        \E i \in 1..(j - 1) :
            SameContainer(i, j) /\ trace[i].scanned /\ trace[j].tags # <<>>

ReservedKeys == {KeyDocker, KeyTags, KeyStream, KeyMarathon}

\* The payload of e is the text of a JSON object.
ObjectPayload(e) == Decode(e.m.Data).ok /\ Decode(e.m.Data).v.t = "obj"

HoldsAs(data, k, type, val) ==
    k \in DOMAIN data.m /\ data.m[k].go = type /\ data.m[k].val = val

\* C7: the record composed from a JSON object payload keeps every other
\* top-level key of the payload with its value, and docker, tags, stream and
\* marathon hold the computed identity, tags, source label and scheduler
\* metadata, also when the payload had one of these keys.
C7_MergedRecord ==
    \A e \in Entries :
        (ObjectPayload(e) /\ e.fault = "none") =>
            LET payload == Decode(e.m.Data).v.o
            IN  /\ e.shape = "merged"
                /\ DOMAIN e.data.m = (DOMAIN payload) \cup ReservedKeys
                /\ \A k \in (DOMAIN payload) \ ReservedKeys :
                       HoldsAs(e.data, k, "json", payload[k])
                /\ HoldsAs(e.data, KeyDocker, "DockerInfo", DockerInfoOf(e.m))
                /\ HoldsAs(e.data, KeyTags, "[]string", e.tags)
                /\ HoldsAs(e.data, KeyStream, "string", e.m.Source)
                /\ IF rev = "A"
                   THEN HoldsAs(e.data, KeyMarathon, "map[string]string",
                                GetMarathonInfo(e.m.Container).val)
                   ELSE HoldsAs(e.data, KeyMarathon, "MarathonData",
                                GetMarathonData(e.m.Container).val)

C7_Witness ==
    \E e \in Entries :
        /\ e.m.Data = TextObjectTags
        /\ e.shape = "merged"
        /\ e.tags = <<<<"p","r","o","d">>, <<"w","e","b">>>>
        /\ e.wrote

\* C8: the record composed from a payload that is not valid JSON is a new
\* record with the raw text as message, the source label as stream, the
\* container identity as docker, the container's tags and the extracted
\* scheduler metadata; container c1 with env [LOGSTASH_TAGS=prod,web,
\* MARATHON_APP_ID=/svc], not cached yet, payload hello, source stdout gives
\* message hello, docker.id c1, marathon.id /svc, stream stdout, tags
\* [prod, web].
C8_RawRecord ==
    \A e \in Entries :
        (~Decode(e.m.Data).ok /\ e.fault = "none") =>
            /\ e.shape = "raw"
            /\ e.msg.Message = e.m.Data
            /\ e.msg.Stream = e.m.Source
            /\ e.msg.Docker = DockerInfoOf(e.m)
            /\ e.msg.Tags = e.tags
            /\ (e.scanned
                  /\ e.m = Message(Container(IdC1, <<EnvTagsProdWeb, EnvIdSvc>>),
                                   TextHello, Stdout)) =>
                   /\ e.msg.Docker.ID = IdC1
                   /\ e.msg.Tags = <<<<"p","r","o","d">>, <<"w","e","b">>>>
                   /\ IdentityOf(e) = <<"/","s","v","c">>

\* The environment yields no scheduler metadata.
NoSchedulerMetadata(env) ==
    \A x \in EnvEntries(env) : ~HasPrefix(x, PfxMarathonApp)

\* C9: a transmitted record, of either shape, has no marathon key when the
\* environment yields no scheduler metadata.
Transmitted(buf) == Decode(SubSeq(buf, 1, Len(buf) - 1)).v

C9_MarathonOmittedWhenEmpty ==
    \A e \in Entries :
        (e.wrote /\ NoSchedulerMetadata(EnvOf(e))) =>
            KeyMarathon \notin DOMAIN Transmitted(e.buf).o

\* The entries of the trace whose record was written, in order.
Written == SelectSeq(trace, LAMBDA e : e.wrote)

\* C10: the records on the connection are those of the transmitted messages
\* in arrival order, each message written at most once.
C10_WritesInArrivalOrder ==
    /\ Len(conn) = Len(Written)
    /\ \A i \in 1..Len(Written) : conn[i] = Written[i].buf
    /\ \A j \in 1..Len(Written) :
           \A i \in 1..(j - 1) : Written[i].seq < Written[j].seq

C10_Witness == Len(conn) >= 2 /\ conn[1] # conn[2]

\* Number of records written for the entries before entry i of the trace.
WrittenBefore(i) == Cardinality({j \in 1..(i - 1) : trace[j].wrote})

\* C11: a failed write is fatal.  Once a write has failed the forwarder is
\* terminated for good, the message whose write failed is the last one it
\* has received, and the connection holds the records written before it and
\* nothing else (no retry, no buffering of the failed record).
C11_WriteFailureFatal ==
    \A i \in 1..Len(trace) :
        trace[i].werr =>
            /\ pc = "Fatal"
            /\ i = Len(trace)
            /\ Len(conn) = WrittenBefore(i)

C11_Witness ==
    \E i \in 1..Len(trace) : trace[i].werr /\ logstream # <<>>

\* C12: when json.Marshal fails for a composed record, nothing is written
\* for that message, the forwarder stays running (it ends only by a later
\* event) and the message received next is the one that follows it on the
\* stream.
C12_MarshalFailureSkipsMessage ==
    \A i \in 1..Len(trace) :
        trace[i].merr =>
            /\ ~trace[i].wrote
            /\ Len(conn) = Cardinality({j \in 1..Len(trace) : trace[j].wrote})
            /\ i = Len(trace) => pc \in {"Running", "Returned"}
            /\ i < Len(trace) => trace[i + 1].seq = trace[i].seq + 1

C12_Witness ==
    \E i \in 1..(Len(trace) - 1) :
        /\ trace[i].merr
        /\ trace[i + 1].wrote
        /\ Len(conn) = 1

\* The JSON value of the record composed for entry e of the trace.
RecordOf(e) ==
    IF e.shape = "merged" THEN MarshalData(e.data)
    ELSE IF rev = "A" THEN MarshalLogstashMessageA(e.msg)
    ELSE MarshalLogstashMessageB(e.msg)

\* The text d decodes as one JSON object, the record composed for entry e.
IsRecordOf(d, e) == d.ok /\ d.v.t = "obj" /\ d.v = RecordOf(e)

\* Buffer b is the JSON text of the record of entry e and one newline.
OneRecordOneNewline(b, e) ==
    /\ b # <<>>
    /\ b[Len(b)] = "\n"
    /\ \A j \in 1..(Len(b) - 1) : b[j] # "\n"
    /\ IsRecordOf(Decode(SubSeq(b, 1, Len(b) - 1)), e)

\* C13: every step that writes to the connection writes one buffer, the
\* JSON text of the one record composed for the message just received
\* followed by one newline: the newline is the last byte and occurs nowhere
\* else, and the bytes before it decode as that record and nothing more.
C13_OneRecordOneNewline ==
    [][conn' # conn =>
          /\ Len(conn') = Len(conn) + 1
          /\ SubSeq(conn', 1, Len(conn)) = conn
          /\ Len(trace') = Len(trace) + 1
          /\ OneRecordOneNewline(conn'[Len(conn')], trace'[Len(trace')])]_vars

C13_Witness ==
    \E i \in 1..Len(conn) :
        /\ Written[i].m.Data = TextTwoLines
        /\ Written[i].shape = "raw"
        /\ conn[i] = Written[i].buf

\* C14: once the stream is closed and the forwarder has left the loop of
\* Stream without a failed write, it has received every message that was
\* sent, each exactly once and none is left on the stream.
C14_ClosedStreamDrained ==
    (closed /\ pc # "Running" /\ \A i \in 1..Len(trace) : ~trace[i].werr) =>
        /\ logstream = <<>>
        /\ Len(trace) = sent
        /\ \A i \in 1..Len(trace) : trace[i].seq = i

\* The ID of the container of entry e of the trace.
IdOf(e) == e.m.Container.ID

\* The tags GetContainerTags computes for container c on an empty cache.
FreshTags(c) ==
    IF rev = "A" THEN GetContainerTagsA(c, EmptyFn).tags
    ELSE GetContainerTagsB(c, EmptyFn).tags

\* C17: no step removes or changes an entry of the cache; a step that
\* receives a message adds at most the entry of that message's container
\* ID, and the message gets the tags the cache held for its ID before the
\* step, if it held any, whatever environment list the message carries.
C17_CacheEntriesNeverChange ==
    [][/\ \A id \in DOMAIN containerTags :
              id \in DOMAIN containerTags' /\ containerTags'[id] = containerTags[id]
       /\ trace' = trace => containerTags' = containerTags
       /\ trace' # trace =>
              /\ DOMAIN containerTags' =
                     DOMAIN containerTags \cup {IdOf(trace'[Len(trace')])}
              /\ trace'[Len(trace')].tags =
                     containerTags'[IdOf(trace'[Len(trace')])]]_vars

C17_Witness ==
    \E j \in 1..Len(trace) :
        \E i \in 1..(j - 1) :
            /\ IdOf(trace[i]) = IdOf(trace[j])
            /\ EnvOf(trace[i]) # EnvOf(trace[j])
            /\ trace[i].scanned
            /\ trace[j].tags = trace[i].tags
            /\ trace[j].tags # FreshTags(trace[j].m.Container)
            /\ containerTags[IdOf(trace[j])] = trace[i].tags

\* C18: when a failed write has ended the forwarder, the connection has
\* been closed.
C18_ClosedBeforeTermination == pc = "Fatal" => ~connOpen

\* All messages received so far of one container ID carry the same
\* environment list.
SameEnvPerID(tr) ==
    \A i, j \in 1..Len(tr) :
        IdOf(tr[i]) = IdOf(tr[j]) => EnvOf(tr[i]) = EnvOf(tr[j])

\* Entry e is handled as f, the handling of its message on an empty cache.
HandledAs(e, f) ==
    /\ e.tags = f.tags
    /\ e.fault = f.fault
    /\ e.shape = f.shape
    /\ e.msg = f.msg
    /\ e.data = f.data
    /\ ~e.merr => e.buf = f.buf

\* C19: provided all messages received so far of one container ID carry the
\* same environment list, every message is handled, and its record written,
\* exactly as by a forwarder that scans the environment list of the message
\* itself: the step yields the tags, the record and the buffer computed on
\* an empty cache, and a buffer appended to the connection is that buffer.
C19_CacheTransparent ==
    [][(trace' # trace /\ SameEnvPerID(trace')) =>
           \A e \in {trace'[Len(trace')]} :
               /\ HandledAs(e, StreamBody(rev, e.m, EmptyFn))
               /\ e.wrote => conn' = Append(conn, e.buf)
               /\ ~e.wrote => conn' = conn]_vars

C19_Witness ==
    /\ SameEnvPerID(trace)
    /\ \E j \in 1..Len(trace) :
           \E i \in 1..(j - 1) :
               /\ IdOf(trace[i]) = IdOf(trace[j])
               /\ ~trace[j].scanned
               /\ trace[j].wrote
               /\ trace[j].tags # <<>>
               /\ conn[Len(conn)] = trace[j].buf

\* C15: two concurrent calls of GetContainerTags on one cache for two
\* different container IDs never fault, and once both have returned each
\* holds the tags of its own container and the cache holds both entries
\* with these tags.
C15_ConcurrentLookupsSafe ==
    conc # NoCallers =>
        /\ \A k \in 1..2 : conc[k].pc # "thrown"
        /\ (\A k \in 1..2 : conc[k].pc = "done") =>
               \A k \in 1..2 :
                   /\ conc[k].tags = ScanTags(rev, conc[k].c.Env)
                   /\ conc[k].c.ID \in DOMAIN containerTags
                   /\ containerTags[conc[k].c.ID] = conc[k].tags

\* C16: a step of the first forwarder that handles a message leaves the
\* second forwarder as it was: its cache, its connection, the messages it
\* has still to handle and whether it is running.
C16_ForwardersIndependent == [][trace' # trace => others' = others]_vars

====
